---- MODULE Spec2Model ----
(***************************************************************************)
(* tele-chat: the live-delivery subsystem.                                 *)
(*   server  : server/routes.ts  (src/unnamed/part_002) - the WebSocket    *)
(*             registry wsConnections, the per-socket session, the REST    *)
(*             send handler with its broadcast loop, the typing relay      *)
(*   storage : src/server/storage.ts - the tables the push path reads      *)
(*   client  : src/client/src/hooks/useWebSocket.ts - the reconnecting     *)
(*             socket hook; ChatArea (src/unnamed/part_000) - the typing   *)
(*             effect                                                      *)
(***************************************************************************)
EXTENDS Integers, Sequences, FiniteSets, TLC

\* ------------------------------------------------------------------ bounds
NSockets == 2        \* server-side sockets that may ever connect
NRequests == 2       \* REST send requests that may ever be issued
NTypings == 1        \* typing frames that may ever be received
NCalls == 2          \* REST create-conversation requests that may ever be issued
MaxAuths == 2        \* auth frames that may ever be received

Sockets == 1 .. NSockets
Requests == 1 .. NRequests
Typings == 1 .. NTypings
Calls == 1 .. NCalls

\* ------------------------------------------------------------- value sets
Null == "null"       \* JS null / undefined
Empty == ""          \* the empty string, falsy like null
Users == {"A", "B", "C"}
AuthIds == Users \cup {Empty}          \* what an auth frame may carry as userId
InvalidId == "bad"                     \* a conversationId that is no uuid, or none
ConvIds == {"c1", "c2", "c0", InvalidId}   \* c0 names no stored conversation
Senders == {"A", "C"}                  \* the session users that issue send requests
SendConvs == {"c1", "c2"}              \* the :id of the send requests

Truthy(id) == id # Null /\ id # Empty

VARIABLES
    readyState,      \* server socket -> "NONE" | "OPEN" | "CLOSING" | "CLOSED"
    userId,          \* server socket -> the closure variable `userId` of its connection
    wsConnections,   \* the Map<string, WebSocket>, as its set of <<key, value>> entries
    conversations,   \* storage: rows of table conversations: [id, isGroup]
    participants,    \* storage: rows of table participants, in insertion order
    messages,        \* storage: rows of table messages, in insertion order
    req,             \* REST send request -> its progress through the handler
    typ,             \* typing frame -> its progress through the relay
    sent,            \* every ws.send of the server, in order
    nAuth,           \* auth frames received so far
    call             \* REST create-conversation request -> its progress

serverVars == <<readyState, userId, wsConnections, conversations, participants,
                messages, req, typ, sent, nAuth, call>>

VARIABLES
    mounted,         \* "no" | "yes" | "gone": the component that calls the hook
    hookUserId,      \* the hook's argument userId
    hook,            \* useWebSocket: isConnected, wsRef, reconnectTimeoutRef,
                     \*   reconnectAttempts; the WebSocket objects it created
                     \*   and the pending reconnect timers
    chat,            \* ChatArea: messageContent, isTyping, conversationId, the
                     \*   pending typing timeout
    nUserChanges

hookVars == <<mounted, hookUserId, hook, chat, nUserChanges>>

VARIABLES
    cache,           \* the query cache: conversation -> the cached message list (ids)
    fetch,           \* conversation -> the fetch of its messages query
    delivered        \* message id -> new_message payloads handed to handleMessage

cacheVars == <<cache, fetch, delivered>>

clientVars == <<hookVars, cacheVars>>

\* ------------------------------------------------------------ Map<K, V>
MapHas(m, k) == \E e \in m : e[1] = k
MapGet(m, k) == IF MapHas(m, k) THEN (CHOOSE e \in m : e[1] = k)[2] ELSE Null
MapSet_append(m, k, v) == m \cup {<<k, v>>}
MapSet(m, k, v) == {e \in m : e[1] # k} \cup {<<k, v>>}
MapDelete(m, k) == {e \in m : e[1] # k}
MapValues(m, k) == {e[2] : e \in {x \in m : x[1] = k}}

\* -------------------------------------------------------------- storage
RowsOf(id) == SelectSeq(participants, LAMBDA row : row.conversationId = id)

\* `undefined` where a conversation record is expected
Undefined == [id |-> Null, participants |-> <<>>]

getConversation(id) ==
    IF \A c \in conversations : c.id # id THEN Undefined
    ELSE [id |-> id, participants |-> RowsOf(id)]

isUserInConversation(u, c) ==
    \E i \in DOMAIN participants :
        participants[i].userId = u /\ participants[i].conversationId = c

MapUserId(rows) == [i \in DOMAIN rows |-> rows[i].userId]

\* Array.prototype.reverse
Reverse(s) == [i \in 1 .. Len(s) |-> s[Len(s) + 1 - i]]

\* getMessages(conversationId, limit = 50, offset = 0); createdAt grows with
\* the insertion order of the rows
DefaultLimit == 50
getMessages_noReverse(conversationId, limit, offset) ==
    LET rows == SelectSeq(messages, LAMBDA m : m.conversationId = conversationId)
        desc == Reverse(rows)
        last == IF offset + limit < Len(desc) THEN offset + limit ELSE Len(desc)
    IN  SubSeq(desc, offset + 1, last)
getMessages(conversationId, limit, offset) ==
    LET rows == SelectSeq(messages, LAMBDA m : m.conversationId = conversationId)
        desc == Reverse(rows)
        last == IF offset + limit < Len(desc) THEN offset + limit ELSE Len(desc)
    IN  Reverse(SubSeq(desc, offset + 1, last))


\* ------------------------------------------------------- initial state
Idle == "idle"

ReqInit == [pc |-> Idle, userId |-> Null, id |-> Null, message |-> 0,
            participantIds |-> <<>>, status |-> 0, registered |-> {}]

CallInit == [pc |-> Idle, kind |-> Null, userId1 |-> Null, userId2 |-> Null,
             participantIds |-> <<>>, id |-> Null, i |-> 0, status |-> 0,
             result |-> Null]

TypInit == [pc |-> Idle, ws |-> 0, conversationId |-> Null, isTyping |-> FALSE,
            userId |-> Null]

ServerInit ==
    /\ readyState = [s \in Sockets |-> "NONE"]
    /\ userId = [s \in Sockets |-> Null]
    /\ wsConnections = {}
    /\ conversations = {[id |-> "c1", isGroup |-> TRUE],
                        [id |-> "c2", isGroup |-> FALSE]}
    /\ participants = << [conversationId |-> "c1", userId |-> "A"],
                         [conversationId |-> "c1", userId |-> "B"],
                         [conversationId |-> "c1", userId |-> "C"],
                         [conversationId |-> "c2", userId |-> "A"],
                         [conversationId |-> "c2", userId |-> "B"] >>
    /\ messages = <<>>
    /\ req = [r \in Requests |-> ReqInit]
    /\ typ = [t \in Typings |-> TypInit]
    /\ sent = <<>>
    /\ nAuth = 0
    /\ call = [d \in Calls |-> CallInit]

\* ---------------------------------------------------- the two send loops
\* The body shared by both loops: look the participant up in the registry and
\* write the event when the socket found is OPEN.
IsOpenFor_noStateCheck(participantId) ==
    MapHas(wsConnections, participantId)
IsOpenFor(participantId) ==
    /\ MapHas(wsConnections, participantId)
    /\ readyState[MapGet(wsConnections, participantId)] = "OPEN"

SendTo_stopAtClosed(participantIds, event) ==
    LET closed == {i \in DOMAIN participantIds :
                      /\ MapHas(wsConnections, participantIds[i])
                      /\ ~IsOpenFor(participantIds[i])}
        cut == IF closed = {} THEN Len(participantIds)
               ELSE (CHOOSE i \in closed : \A j \in closed : i <= j) - 1
        hit == SelectSeq(SubSeq(participantIds, 1, cut), IsOpenFor)
    IN  [i \in DOMAIN hit |->
            [to |-> MapGet(wsConnections, hit[i]),
             key |-> hit[i],
             event |-> event]]
SendTo(participantIds, event) ==
    LET hit == SelectSeq(participantIds, IsOpenFor)
    IN  [i \in DOMAIN hit |->
            [to |-> MapGet(wsConnections, hit[i]),
             key |-> hit[i],
             event |-> event]]

\* POST /api/conversations/:id/messages: the ids the loop runs over
BroadcastTargets_exceptSender(conversation, senderId) ==
    SelectSeq(MapUserId(conversation.participants), LAMBDA id : id # senderId)
BroadcastTargets(conversation, senderId) ==
    MapUserId(conversation.participants)

\* typing branch: the ids the loop runs over
TypingTargets(conversation, sender) ==
    SelectSeq(MapUserId(conversation.participants), LAMBDA id : id # sender)

\* The server process is up. A rejected promise nobody handles ends it when
\* the runtime is set to throw on unhandled rejections.
Running == \A t \in Typings : typ[t].pc # "exit"

\* ------------------------------------------------- socket session actions
\* wss.on('connection'): a fresh socket, OPEN, with userId = null
Connect(s) ==
    /\ Running
    /\ readyState[s] = "NONE"
    /\ \A k \in 1 .. (s - 1) : readyState[k] # "NONE"
    /\ readyState' = [readyState EXCEPT ![s] = "OPEN"]
    /\ userId' = [userId EXCEPT ![s] = Null]
    /\ UNCHANGED <<wsConnections, conversations, participants, messages, req, typ, sent, nAuth>>
    /\ UNCHANGED <<call, clientVars>>

\* ws.on('message') with message.type === 'auth'
Auth(s, id) ==
    /\ Running
    /\ readyState[s] = "OPEN"
    /\ nAuth < MaxAuths
    /\ nAuth' = nAuth + 1
    /\ userId' = [userId EXCEPT ![s] = id]
    /\ wsConnections' = IF Truthy(id) THEN MapSet(wsConnections, id, s)
                        ELSE wsConnections
    /\ UNCHANGED <<readyState, conversations, participants, messages, req, typ, sent>>
    /\ UNCHANGED <<call, clientVars>>

\* ws.on('message') with message.type === 'typing': the getConversation call
\* is started only when userId is set; its callback runs later.
Typing_noAuthCheck(t, s, c, b) ==
    /\ Running
    /\ typ[t].pc = Idle
    /\ \A k \in 1 .. (t - 1) : typ[k].pc # Idle
    /\ readyState[s] = "OPEN"
    /\ typ' = [typ EXCEPT ![t] =
                 [@ EXCEPT !.pc = "pending",
                           !.ws = s, !.conversationId = c, !.isTyping = b]]
    /\ UNCHANGED <<readyState, userId, wsConnections, conversations, participants,
                   messages, req, sent, nAuth>>
    /\ UNCHANGED <<call, clientVars>>
Typing(t, s, c, b) ==
    /\ Running
    /\ typ[t].pc = Idle
    /\ \A k \in 1 .. (t - 1) : typ[k].pc # Idle
    /\ readyState[s] = "OPEN"
    /\ typ' = [typ EXCEPT ![t] =
                 [@ EXCEPT !.pc = IF Truthy(userId[s]) THEN "pending" ELSE "ignored",
                           !.ws = s, !.conversationId = c, !.isTyping = b]]
    /\ UNCHANGED <<readyState, userId, wsConnections, conversations, participants,
                   messages, req, sent, nAuth>>
    /\ UNCHANGED <<call, clientVars>>

\* the .then callback of the typing branch, the query having succeeded;
\* `userId` is the closure variable as it is when the callback runs
TypingRelay(t) ==
    /\ Running
    /\ typ[t].pc = "pending"
    /\ typ[t].conversationId # InvalidId
    /\ LET conversation == getConversation(typ[t].conversationId)
           sender == userId[typ[t].ws]
           event == [type |-> "typing", conversationId |-> typ[t].conversationId,
                     message |-> 0, userId |-> sender, isTyping |-> typ[t].isTyping,
                     by |-> <<"typ", t>>]
       IN  /\ sent' = IF conversation # Undefined
                      THEN sent \o SendTo(TypingTargets(conversation, sender), event)
                      ELSE sent
           /\ typ' = [typ EXCEPT ![t] = [@ EXCEPT !.pc = "done", !.userId = sender]]
    /\ UNCHANGED <<readyState, userId, wsConnections, conversations, participants,
                   messages, req, nAuth>>
    /\ UNCHANGED <<call, clientVars>>

\* the promise of getConversation rejects (the id is no uuid, or the database
\* fails): the .then callback does not run and nothing handles the rejection,
\* the try block having been left long ago. The runtime either reports it and
\* goes on, or ends the process.
TypingLookupFail(t, exits) ==
    /\ Running
    /\ typ[t].pc = "pending"
    /\ typ' = [typ EXCEPT ![t] = [@ EXCEPT !.pc = IF exits THEN "exit" ELSE "unhandled"]]
    /\ UNCHANGED <<readyState, userId, wsConnections, conversations, participants,
                   messages, req, sent, nAuth>>
    /\ UNCHANGED <<call, clientVars>>

\* the closing handshake has begun: readyState is no longer OPEN, the 'close'
\* event has not been emitted yet
BeginClose(s) ==
    /\ Running
    /\ readyState[s] = "OPEN"
    /\ readyState' = [readyState EXCEPT ![s] = "CLOSING"]
    /\ UNCHANGED <<userId, wsConnections, conversations, participants, messages,
                   req, typ, sent, nAuth>>
    /\ UNCHANGED <<call, clientVars>>

\* ws.on('close')
Close(s) ==
    /\ Running
    /\ readyState[s] \in {"OPEN", "CLOSING"}
    /\ readyState' = [readyState EXCEPT ![s] = "CLOSED"]
    /\ wsConnections' = IF Truthy(userId[s]) THEN MapDelete(wsConnections, userId[s])
                        ELSE wsConnections
    /\ UNCHANGED <<userId, conversations, participants, messages, req, typ, sent, nAuth>>
    /\ UNCHANGED <<call, clientVars>>

\* ------------------------------------- POST /api/conversations/:id/messages
\* the request arrives; isAuthenticated has supplied req.user.claims.sub
SendStart(r, u, c) ==
    /\ Running
    /\ req[r].pc = Idle
    /\ \A k \in 1 .. (r - 1) : req[k].pc # Idle
    /\ req' = [req EXCEPT ![r] = [@ EXCEPT !.pc = "check", !.userId = u, !.id = c]]
    /\ UNCHANGED <<readyState, userId, wsConnections, conversations, participants,
                   messages, typ, sent, nAuth>>
    /\ UNCHANGED <<call, clientVars>>

\* await storage.isUserInConversation(userId, id)
SendCheck_noReturn(r) ==
    /\ Running
    /\ req[r].pc = "check"
    /\ req' = [req EXCEPT ![r] = [@ EXCEPT !.pc = "create"]]
    /\ UNCHANGED <<readyState, userId, wsConnections, conversations, participants,
                   messages, typ, sent, nAuth>>
    /\ UNCHANGED <<call, clientVars>>
SendCheck(r) ==
    /\ Running
    /\ req[r].pc = "check"
    /\ req' = [req EXCEPT ![r] =
                 IF isUserInConversation(req[r].userId, req[r].id)
                 THEN [@ EXCEPT !.pc = "create"]
                 ELSE [@ EXCEPT !.pc = "done", !.status = 403]]
    /\ UNCHANGED <<readyState, userId, wsConnections, conversations, participants,
                   messages, typ, sent, nAuth>>
    /\ UNCHANGED <<call, clientVars>>

\* await storage.createMessage(...); `registered` notes, until the handler
\* ends, the registry keys present when the row was inserted
SendCreate(r) ==
    /\ Running
    /\ req[r].pc = "create"
    /\ messages' = Append(messages, [id |-> Len(messages) + 1,
                                     conversationId |-> req[r].id,
                                     senderId |-> req[r].userId])
    /\ req' = [req EXCEPT ![r] =
                 [@ EXCEPT !.pc = "lookup", !.message = Len(messages) + 1,
                           !.registered = {e[1] : e \in wsConnections}]]
    /\ UNCHANGED <<readyState, userId, wsConnections, conversations, participants,
                   typ, sent, nAuth>>
    /\ UNCHANGED <<call, clientVars>>

\* `await storage.createMessage(...)` rejects, before its insert or - the row
\* being stored - in one of the two queries that follow it: the catch block
\* answers 500
SendCreateFail_stillPushes(r, inserted) ==
    /\ Running
    /\ req[r].pc = "create"
    /\ req' = [req EXCEPT ![r] = [@ EXCEPT !.pc = "lookup"]]
    /\ UNCHANGED <<readyState, userId, wsConnections, conversations, participants,
                   messages, typ, sent, nAuth>>
    /\ UNCHANGED <<call, clientVars>>
SendCreateFail(r, inserted) ==
    /\ Running
    /\ req[r].pc = "create"
    /\ messages' = IF inserted
                   THEN Append(messages, [id |-> Len(messages) + 1,
                                          conversationId |-> req[r].id,
                                          senderId |-> req[r].userId])
                   ELSE messages
    /\ req' = [req EXCEPT ![r] = [@ EXCEPT !.pc = "done", !.status = 500]]
    /\ UNCHANGED <<readyState, userId, wsConnections, conversations, participants,
                   typ, sent, nAuth>>
    /\ UNCHANGED <<call, clientVars>>

\* await storage.getConversation(id), the broadcast loop, res.json(message)
SendBroadcast(r) ==
    /\ Running
    /\ req[r].pc = "lookup"
    /\ LET conversation == getConversation(req[r].id)
           participantIds == IF conversation # Undefined
                             THEN BroadcastTargets(conversation, req[r].userId)
                             ELSE <<>>
           event == [type |-> "new_message", conversationId |-> req[r].id,
                     message |-> req[r].message, userId |-> Null, isTyping |-> FALSE,
                     by |-> <<"req", r>>]
       IN  /\ sent' = sent \o SendTo(participantIds, event)
           /\ req' = [req EXCEPT ![r] =
                        [@ EXCEPT !.pc = "done", !.status = 200, !.registered = {},
                                  !.participantIds = participantIds]]
    /\ UNCHANGED <<readyState, userId, wsConnections, conversations, participants,
                   messages, typ, nAuth>>
    /\ UNCHANGED <<call, clientVars>>

\* `await storage.getConversation(id)` rejects: the catch block answers 500
SendLookupFail(r) ==
    /\ Running
    /\ req[r].pc = "lookup"
    /\ req' = [req EXCEPT ![r] = [@ EXCEPT !.pc = "done", !.status = 500, !.registered = {}]]
    /\ UNCHANGED <<readyState, userId, wsConnections, conversations, participants,
                   messages, typ, sent, nAuth>>
    /\ UNCHANGED <<call, clientVars>>

\* ------------------------------------------- creating conversations
\* the uuid the database generates for the row that call d inserts
NewIds == <<"n1", "n2", "n3">>
\* the participantIds a group request may carry
GroupInputs == {<<"B">>, <<"A">>, <<"B", "B">>}

\* storage.createConversation / storage.addParticipant: plain inserts
createConversation(id, isGroup) ==
    conversations \cup {[id |-> id, isGroup |-> isGroup]}
addParticipant(conversationId, u) ==
    Append(participants, [conversationId |-> conversationId, userId |-> u])

\* the select of getOrCreateDirectConversation, before its limit(1): the
\* non-group conversations with a participant row for userId1 and one for
\* userId2
existingConversation(userId1, userId2) ==
    {c \in conversations :
        /\ ~c.isGroup
        /\ \E p1, p2 \in DOMAIN participants :
              /\ participants[p1].conversationId = c.id
              /\ participants[p2].conversationId = c.id
              /\ participants[p1].userId = userId1
              /\ participants[p2].userId = userId2}

\* POST /api/conversations/direct arrives: 400 without a userId in the body
DirectStart(d, currentUserId, otherUserId) ==
    /\ Running
    /\ call[d].pc = Idle
    /\ \A k \in 1 .. (d - 1) : call[k].pc # Idle
    /\ call' = [call EXCEPT ![d] =
                  IF Truthy(otherUserId)
                  THEN [@ EXCEPT !.pc = "find", !.kind = "direct",
                                 !.userId1 = currentUserId, !.userId2 = otherUserId]
                  ELSE [@ EXCEPT !.pc = "done", !.kind = "direct",
                                 !.userId1 = currentUserId, !.status = 400]]
    /\ UNCHANGED <<readyState, userId, wsConnections, conversations, participants,
                   messages, req, typ, sent, nAuth>>
    /\ UNCHANGED clientVars

\* getOrCreateDirectConversation: the select answers; a row found is returned
\* (limit(1) without an order: any of the rows that match)
DirectFind(d) ==
    /\ Running
    /\ call[d].pc = "find"
    /\ LET found == existingConversation(call[d].userId1, call[d].userId2)
       IN  IF found = {}
           THEN call' = [call EXCEPT ![d] = [@ EXCEPT !.pc = "create"]]
           ELSE \E c \in found :
                   call' = [call EXCEPT ![d] =
                              [@ EXCEPT !.pc = "done", !.status = 200, !.result = c.id]]
    /\ UNCHANGED <<readyState, userId, wsConnections, conversations, participants,
                   messages, req, typ, sent, nAuth>>
    /\ UNCHANGED clientVars

\* await this.createConversation({isGroup: false, createdBy: userId1})
DirectCreate(d) ==
    /\ Running
    /\ call[d].pc = "create"
    /\ conversations' = createConversation(NewIds[d], FALSE)
    /\ call' = [call EXCEPT ![d] = [@ EXCEPT !.pc = "add1", !.id = NewIds[d]]]
    /\ UNCHANGED <<readyState, userId, wsConnections, participants,
                   messages, req, typ, sent, nAuth>>
    /\ UNCHANGED clientVars

\* await this.addParticipant({conversationId, userId: userId1})
DirectAdd1(d) ==
    /\ Running
    /\ call[d].pc = "add1"
    /\ participants' = addParticipant(call[d].id, call[d].userId1)
    /\ call' = [call EXCEPT ![d] = [@ EXCEPT !.pc = "add2"]]
    /\ UNCHANGED <<readyState, userId, wsConnections, conversations,
                   messages, req, typ, sent, nAuth>>
    /\ UNCHANGED clientVars

\* await this.addParticipant({conversationId, userId: userId2}); return
\* newConversation; res.json(conversation)
DirectAdd2(d) ==
    /\ Running
    /\ call[d].pc = "add2"
    /\ participants' = addParticipant(call[d].id, call[d].userId2)
    /\ call' = [call EXCEPT ![d] =
                  [@ EXCEPT !.pc = "done", !.status = 200, !.result = call[d].id]]
    /\ UNCHANGED <<readyState, userId, wsConnections, conversations,
                   messages, req, typ, sent, nAuth>>
    /\ UNCHANGED clientVars

\* POST /api/conversations/group arrives; schema.parse gives participantIds
GroupStart(d, currentUserId, participantIds) ==
    /\ Running
    /\ call[d].pc = Idle
    /\ \A k \in 1 .. (d - 1) : call[k].pc # Idle
    /\ call' = [call EXCEPT ![d] =
                  [@ EXCEPT !.pc = "gcreate", !.kind = "group",
                            !.userId1 = currentUserId,
                            !.participantIds = participantIds]]
    /\ UNCHANGED <<readyState, userId, wsConnections, conversations, participants,
                   messages, req, typ, sent, nAuth>>
    /\ UNCHANGED clientVars

\* await storage.createConversation({name, isGroup: true, createdBy})
GroupCreate(d) ==
    /\ Running
    /\ call[d].pc = "gcreate"
    /\ conversations' = createConversation(NewIds[d], TRUE)
    /\ call' = [call EXCEPT ![d] = [@ EXCEPT !.pc = "gcreator", !.id = NewIds[d]]]
    /\ UNCHANGED <<readyState, userId, wsConnections, participants,
                   messages, req, typ, sent, nAuth>>
    /\ UNCHANGED clientVars

\* await storage.addParticipant({conversationId, userId: currentUserId})
GroupAddCreator(d) ==
    /\ Running
    /\ call[d].pc = "gcreator"
    /\ participants' = addParticipant(call[d].id, call[d].userId1)
    /\ call' = [call EXCEPT ![d] =
                  IF call[d].participantIds = <<>>
                  THEN [@ EXCEPT !.pc = "done", !.status = 200, !.result = call[d].id]
                  ELSE [@ EXCEPT !.pc = "gadd", !.i = 1]]
    /\ UNCHANGED <<readyState, userId, wsConnections, conversations,
                   messages, req, typ, sent, nAuth>>
    /\ UNCHANGED clientVars

\* one turn of `for (const participantId of participantIds)`; after the last
\* one, res.json(conversation)
GroupAdd(d) ==
    /\ Running
    /\ call[d].pc = "gadd"
    /\ participants' = addParticipant(call[d].id, call[d].participantIds[call[d].i])
    /\ call' = [call EXCEPT ![d] =
                  IF call[d].i = Len(call[d].participantIds)
                  THEN [@ EXCEPT !.pc = "done", !.status = 200, !.result = call[d].id]
                  ELSE [@ EXCEPT !.i = @ + 1]]
    /\ UNCHANGED <<readyState, userId, wsConnections, conversations,
                   messages, req, typ, sent, nAuth>>
    /\ UNCHANGED clientVars

\* the await a create-conversation request is at rejects: the catch block
\* answers 500; the rows inserted so far stay (no transaction)
CallFail(d) ==
    /\ Running
    /\ call[d].pc \notin {Idle, "done"}
    /\ call' = [call EXCEPT ![d] = [@ EXCEPT !.pc = "done", !.status = 500]]
    /\ UNCHANGED <<readyState, userId, wsConnections, conversations, participants,
                   messages, req, typ, sent, nAuth>>
    /\ UNCHANGED clientVars

\* =================================================================== client
\* ------------------------------------------------------------------ bounds
MaxClientSockets == 8   \* WebSocket objects one hook instance may ever create
MaxUserChanges == 2     \* changes of the hook's userId argument
MaxContent == 2         \* characters in the message input
MaxTimeouts == 2        \* firings of the typing timeout
MaxChatSockets == 2     \* WebSocket objects the hook creates while ChatArea is observed
MaxDeliveries == 2      \* times the payload of one message is handed to handleMessage

\* --------------------------------------------------------- program values
maxReconnectAttempts == 5
BaseDelay == 1000

ClientSockets == 1 .. MaxClientSockets
ClientUsers == {Empty, "A"}          \* user?.id || ''

NoSocket == [state |-> "NONE", userId |-> Null, frames |-> <<>>]
NoFetch == [pc |-> Idle, data |-> <<>>]

ClientInit ==
    /\ mounted = "no"
    /\ hookUserId = Empty
    /\ hook = [isConnected |-> FALSE,
               wsRef |-> {},
               reconnectTimeoutRef |-> {},
               reconnectAttempts |-> 0,
               sockets |-> [k \in ClientSockets |-> NoSocket],
               timers |-> {},
               nTimers |-> 0]
    /\ chat = [messageContent |-> 0,
               isTyping |-> FALSE,
               conversationId |-> "c1",
               typingTimeout |-> FALSE,
               burst |-> <<>>,
               nTimeouts |-> 0]
    /\ nUserChanges = 0
    /\ cache = [c \in SendConvs |-> <<>>]
    /\ fetch = [c \in SendConvs |-> NoFetch]
    /\ delivered = [m \in Requests |-> 0]

\* ------------------------------------------------------------ useWebSocket
Created(h) == {k \in ClientSockets : h.sockets[k].state # "NONE"}
CanCreate(h) == Cardinality(Created(h)) < MaxClientSockets

\* setIsConnected: a state update of a component that is gone is dropped
SetIsConnected(h, m, v) == IF m = "yes" THEN [h EXCEPT !.isConnected = v] ELSE h

\* connect(), of the render whose userId is u
connect(h, u) ==
    IF ~Truthy(u) THEN h
    ELSE LET k == Cardinality(Created(h)) + 1
         IN  [h EXCEPT !.sockets[k] = [state |-> "CONNECTING", userId |-> u,
                                       frames |-> <<>>],
                       !.wsRef = {k}]

\* WebSocket.close()
CloseCall(state) == IF state \in {"CONNECTING", "OPEN"} THEN "CLOSING" ELSE state

\* disconnect()
disconnect(h, m) ==
    LET h1 == [h EXCEPT !.timers = {t \in h.timers : t.id \notin h.reconnectTimeoutRef}]
        h2 == [h1 EXCEPT !.sockets = [k \in ClientSockets |->
                                        IF k \in h.wsRef
                                        THEN [h.sockets[k] EXCEPT !.state = CloseCall(@)]
                                        ELSE h.sockets[k]],
                         !.wsRef = {}]
    IN  SetIsConnected(h2, m, FALSE)

\* the delay of the reconnect scheduled by onclose
Delay_linear(attempts) == 2 * attempts * BaseDelay
Delay(attempts) == (2 ^ attempts) * BaseDelay

\* ws.onopen
onopen(h, m, k) ==
    LET h1 == SetIsConnected(h, m, TRUE)
    IN  [h1 EXCEPT !.reconnectAttempts = 0,
                   !.sockets[k].state = "OPEN",
                   !.sockets[k].frames = Append(@, [type |-> "auth",
                                                    userId |-> h.sockets[k].userId,
                                                    conversationId |-> Null,
                                                    isTyping |-> FALSE])]

\* ws.onclose
onclose(h, m, k) ==
    LET h1 == SetIsConnected(h, m, FALSE)
        h2 == [h1 EXCEPT !.sockets[k].state = "CLOSED"]
    IN  IF h.reconnectAttempts < maxReconnectAttempts
        THEN [h2 EXCEPT !.timers = @ \cup {[id |-> h.nTimers + 1,
                                            delay |-> Delay(h.reconnectAttempts),
                                            userId |-> h.sockets[k].userId]},
                        !.reconnectTimeoutRef = {h.nTimers + 1},
                        !.nTimers = @ + 1]
        ELSE h2

\* the callback of the reconnect timer
ontimeout(h, t) ==
    connect([h EXCEPT !.timers = @ \ {t}, !.reconnectAttempts = @ + 1], t.userId)

\* sendMessage(message)
sendMessage(h, message) ==
    IF \E k \in h.wsRef : h.sockets[k].state = "OPEN"
    THEN [h EXCEPT !.sockets = [k \in ClientSockets |->
                                  IF k \in h.wsRef
                                  THEN [h.sockets[k] EXCEPT !.frames = Append(@, message)]
                                  ELSE h.sockets[k]]]
    ELSE h

\* ---------------------------------------------------------------- ChatArea
TypingFrame(c, b) == [type |-> "typing", userId |-> Null,
                      conversationId |-> c.conversationId, isTyping |-> b]

\* sendWebSocketMessage of a typing frame; burst logs the frames written since
\* the last keystroke
Emit(h, c, b) ==
    LET h1 == sendMessage(h, TypingFrame(c, b))
    IN  [hook |-> h1,
         chat |-> IF h1 # h THEN [c EXCEPT !.burst = Append(@, b)] ELSE c]

\* The typing effect, run after a render in which one of its dependencies
\* changed: the cleanup of the previous run, then the body; the render that
\* setIsTyping(true) causes runs it once more and only re-arms the timeout.
\* Yields the hook and the ChatArea state.
TypingEffect(h, c) ==
    IF c.messageContent > 0 /\ h.isConnected
    THEN IF ~c.isTyping
         THEN [hook |-> Emit(h, c, TRUE).hook,
               chat |-> [Emit(h, c, TRUE).chat EXCEPT !.isTyping = TRUE,
                                                      !.typingTimeout = TRUE]]
         ELSE [hook |-> h, chat |-> [c EXCEPT !.typingTimeout = TRUE]]
    ELSE [hook |-> h, chat |-> [c EXCEPT !.typingTimeout = FALSE]]

\* a hook event has produced h2: ChatArea re-renders when isConnected changed
AfterHook(h1, h2, c) ==
    IF h2.isConnected # h1.isConnected THEN TypingEffect(h2, c)
    ELSE [hook |-> h2, chat |-> c]

\* the unmount cleanup of the typing effect
TypingCleanup(c) == [c EXCEPT !.typingTimeout = FALSE]

\* ---------------------------------------------------------- client actions
\* first render: useEffect runs `if (userId) connect()`
Mount(u) ==
    /\ mounted = "no"
    /\ mounted' = "yes"
    /\ hookUserId' = u
    /\ LET r == AfterHook(hook, connect(hook, u), chat)
       IN  hook' = r.hook /\ chat' = r.chat
    /\ UNCHANGED nUserChanges
    /\ UNCHANGED <<serverVars, cacheVars>>

\* userId changes: the effect's cleanup (disconnect) and then the effect
ChangeUser(u) ==
    /\ mounted = "yes"
    /\ u # hookUserId
    /\ nUserChanges < MaxUserChanges
    /\ CanCreate(hook)
    /\ nUserChanges' = nUserChanges + 1
    /\ hookUserId' = u
    /\ LET r == AfterHook(hook, connect(disconnect(hook, mounted), u), chat)
       IN  hook' = r.hook /\ chat' = r.chat
    /\ UNCHANGED mounted
    /\ UNCHANGED <<serverVars, cacheVars>>

\* the component unmounts: the cleanups run
Unmount ==
    /\ mounted = "yes"
    /\ mounted' = "gone"
    /\ hook' = [disconnect(hook, mounted) EXCEPT !.isConnected = FALSE]
    /\ chat' = TypingCleanup(chat)
    /\ UNCHANGED <<hookUserId, nUserChanges>>
    /\ UNCHANGED <<serverVars, cacheVars>>

\* the open event of socket k
SocketOpen(k) ==
    /\ hook.sockets[k].state = "CONNECTING"
    /\ LET r == AfterHook(hook, onopen(hook, mounted, k), chat)
       IN  hook' = r.hook /\ chat' = r.chat
    /\ UNCHANGED <<mounted, hookUserId, nUserChanges>>
    /\ UNCHANGED <<serverVars, cacheVars>>

\* the close event of socket k
SocketClose(k) ==
    /\ hook.sockets[k].state \in {"CONNECTING", "OPEN", "CLOSING"}
    /\ LET r == AfterHook(hook, onclose(hook, mounted, k), chat)
       IN  hook' = r.hook /\ chat' = r.chat
    /\ UNCHANGED <<mounted, hookUserId, nUserChanges>>
    /\ UNCHANGED <<serverVars, cacheVars>>

\* a reconnect timer fires
TimerFire(id) ==
    /\ \E t \in hook.timers : t.id = id
    /\ CanCreate(hook)
    /\ LET t == CHOOSE x \in hook.timers : x.id = id
           r == AfterHook(hook, ontimeout(hook, t), chat)
       IN  hook' = r.hook /\ chat' = r.chat
    /\ UNCHANGED <<mounted, hookUserId, nUserChanges>>
    /\ UNCHANGED <<serverVars, cacheVars>>

\* the user types or deletes a character: setMessageContent, then the effect
Keystroke(n) ==
    /\ mounted = "yes"
    /\ n \in 0 .. MaxContent
    /\ n - chat.messageContent \in {-1, 1}
    /\ LET r == TypingEffect(hook, [chat EXCEPT !.messageContent = n, !.burst = <<>>])
       IN  hook' = r.hook /\ chat' = r.chat
    /\ UNCHANGED <<mounted, hookUserId, nUserChanges>>
    /\ UNCHANGED <<serverVars, cacheVars>>

\* the typing timeout fires: setIsTyping(false), the isTyping:false frame,
\* and the effect of the render that follows
TypingTimeout ==
    /\ chat.typingTimeout
    /\ chat.nTimeouts < MaxTimeouts
    /\ LET e == Emit(hook, chat, FALSE)
           c1 == [e.chat EXCEPT !.isTyping = FALSE, !.typingTimeout = FALSE,
                                !.nTimeouts = @ + 1]
           r == TypingEffect(e.hook, c1)
       IN  hook' = r.hook /\ chat' = r.chat
    /\ UNCHANGED <<mounted, hookUserId, nUserChanges>>
    /\ UNCHANGED <<serverVars, cacheVars>>

\* sendMessageMutation.onSuccess: setMessageContent("")
SendSuccess ==
    /\ mounted = "yes"
    /\ chat.messageContent > 0
    /\ LET r == TypingEffect(hook, [chat EXCEPT !.messageContent = 0])
       IN  hook' = r.hook /\ chat' = r.chat
    /\ UNCHANGED <<mounted, hookUserId, nUserChanges>>
    /\ UNCHANGED <<serverVars, cacheVars>>

\* another conversation is selected: the prop conversationId changes
SelectConversation(c) ==
    /\ mounted = "yes"
    /\ c # chat.conversationId
    /\ LET r == TypingEffect(hook, [chat EXCEPT !.conversationId = c])
       IN  hook' = r.hook /\ chat' = r.chat
    /\ UNCHANGED <<mounted, hookUserId, nUserChanges>>
    /\ UNCHANGED <<serverVars, cacheVars>>

\* --------------------------------------------------- the messages query
\* queryClient.invalidateQueries of the messages query of conversation c: a
\* fetch in flight is dropped and a new one is issued
invalidateQueries(f, c) == [f EXCEPT ![c] = [pc |-> "requested", data |-> <<>>]]

\* handleMessage, case 'new_message': what it does to the cached list
handleMessage_append(list, message) == Append(list, message)
handleMessage(list, message) == list

Ids(rows) == [i \in DOMAIN rows |-> rows[i].id]
Broadcast(m) == \E r \in Requests : req[r].pc = "done" /\ req[r].status = 200
                                   /\ req[r].message = m

\* ws.onmessage with the new_message payload of message m
HandleMessage(m) ==
    /\ m \in DOMAIN messages
    /\ Broadcast(m)
    /\ delivered[m] < MaxDeliveries
    /\ delivered' = [delivered EXCEPT ![m] = @ + 1]
    /\ fetch' = invalidateQueries(fetch, messages[m].conversationId)
    /\ cache' = [cache EXCEPT ![messages[m].conversationId] = handleMessage(@, m)]
    /\ UNCHANGED <<serverVars, hookVars>>

\* useQuery of the messages of conversation c issues its first fetch
QueryMount(c) ==
    /\ fetch[c].pc = Idle
    /\ cache[c] = <<>>
    /\ fetch' = [fetch EXCEPT ![c] = [pc |-> "requested", data |-> <<>>]]
    /\ UNCHANGED <<serverVars, hookVars, cache, delivered>>

\* GET /api/conversations/:id/messages answers with getMessages(id)
FetchServe(c) ==
    /\ Running
    /\ fetch[c].pc = "requested"
    /\ fetch' = [fetch EXCEPT ![c] = [pc |-> "answered",
                                      data |-> Ids(getMessages(c, DefaultLimit, 0))]]
    /\ UNCHANGED <<serverVars, hookVars, cache, delivered>>

\* GET /api/conversations/:id/messages answers 500: the cached list stays
FetchFail(c) ==
    /\ Running
    /\ fetch[c].pc = "requested"
    /\ fetch' = [fetch EXCEPT ![c] = NoFetch]
    /\ UNCHANGED <<serverVars, hookVars, cache, delivered>>

\* the response arrives: it replaces the cached list
FetchDone(c) ==
    /\ fetch[c].pc = "answered"
    /\ cache' = [cache EXCEPT ![c] = fetch[c].data]
    /\ fetch' = [fetch EXCEPT ![c] = NoFetch]
    /\ UNCHANGED <<serverVars, hookVars, delivered>>

CacheNext ==
    \/ \E m \in Requests : HandleMessage(m)
    \/ \E c \in SendConvs : QueryMount(c)
    \/ \E c \in SendConvs : FetchServe(c)
    \/ \E c \in SendConvs : FetchFail(c)
    \/ \E c \in SendConvs : FetchDone(c)

HookNext ==
    \/ \E u \in ClientUsers : Mount(u)
    \/ \E u \in ClientUsers : ChangeUser(u)
    \/ Unmount
    \/ \E k \in ClientSockets : SocketOpen(k)
    \/ \E k \in ClientSockets : SocketClose(k)
    \/ \E id \in ClientSockets : TimerFire(id)

ChatNext ==
    \/ \E n \in 0 .. MaxContent : Keystroke(n)
    \/ TypingTimeout
    \/ SendSuccess
    \/ \E c \in {"c1", "c2"} : SelectConversation(c)

\* ------------------------------------------------------ next-state parts
SocketNext ==
    \/ \E s \in Sockets : Connect(s)
    \/ \E s \in Sockets, id \in AuthIds : Auth(s, id)
    \/ \E s \in Sockets : BeginClose(s)
    \/ \E s \in Sockets : Close(s)

SendNext ==
    \/ \E r \in Requests, u \in Senders, c \in SendConvs : SendStart(r, u, c)
    \/ \E r \in Requests : SendCheck(r)
    \/ \E r \in Requests : SendCreate(r)
    \/ \E r \in Requests, inserted \in BOOLEAN : SendCreateFail(r, inserted)
    \/ \E r \in Requests : SendBroadcast(r)
    \/ \E r \in Requests : SendLookupFail(r)

TypingNext ==
    \/ \E t \in Typings, s \in Sockets, c \in ConvIds, b \in BOOLEAN : Typing(t, s, c, b)
    \/ \E t \in Typings : TypingRelay(t)
    \/ \E t \in Typings, exits \in BOOLEAN : TypingLookupFail(t, exits)

ConvNext ==
    \/ \E d \in Calls, u \in Users, o \in AuthIds : DirectStart(d, u, o)
    \/ \E d \in Calls : DirectFind(d)
    \/ \E d \in Calls : DirectCreate(d)
    \/ \E d \in Calls : DirectAdd1(d)
    \/ \E d \in Calls : DirectAdd2(d)
    \/ \E d \in Calls, u \in Senders, ids \in GroupInputs : GroupStart(d, u, ids)
    \/ \E d \in Calls : GroupCreate(d)
    \/ \E d \in Calls : GroupAddCreator(d)
    \/ \E d \in Calls : GroupAdd(d)
    \/ \E d \in Calls : CallFail(d)

vars == <<serverVars, clientVars>>
Init == ServerInit /\ ClientInit

\* the socket sessions and the registry
Spec == Init /\ [][SocketNext]_vars
\* ... with the REST send handler
SpecSend == Init /\ [][SocketNext \/ SendNext]_vars
\* ... with the typing relay
SpecTyping == Init /\ [][SocketNext \/ TypingNext]_vars
\* the client's reconnecting socket hook
SpecClient == Init /\ [][HookNext]_vars
\* the client's ChatArea with its hook, the hook creating few sockets
ChatScope == Cardinality(Created(hook')) <= MaxChatSockets
ChatHookNext ==
    \/ \E u \in ClientUsers : Mount(u) /\ ChatScope
    \/ \E u \in ClientUsers : ChangeUser(u) /\ ChatScope
    \/ Unmount
    \/ \E k \in ClientSockets : SocketOpen(k)
    \/ \E k \in ClientSockets : SocketClose(k)
    \/ \E id \in ClientSockets : TimerFire(id) /\ ChatScope
SpecChat == Init /\ [][ChatHookNext \/ ChatNext]_vars
\* the client's messages query, with the REST send handler that persists
SpecCache == Init /\ [][SendNext \/ CacheNext]_vars

\* one socket session, one request that creates a conversation and one send
\* request to the conversation it creates
PushNext ==
    \/ Connect(1)
    \/ \E id \in AuthIds : Auth(1, id)
    \/ BeginClose(1)
    \/ Close(1)
    \/ \E u \in Users, o \in AuthIds : DirectStart(1, u, o)
    \/ DirectFind(1)
    \/ DirectCreate(1)
    \/ DirectAdd1(1)
    \/ DirectAdd2(1)
    \/ \E u \in Senders, ids \in GroupInputs : GroupStart(1, u, ids)
    \/ GroupCreate(1)
    \/ GroupAddCreator(1)
    \/ GroupAdd(1)
    \/ CallFail(1)
    \/ \E u \in Senders : SendStart(1, u, NewIds[1])
    \/ SendCheck(1)
    \/ SendCreate(1)
    \/ \E inserted \in BOOLEAN : SendCreateFail(1, inserted)
    \/ SendBroadcast(1)
    \/ SendLookupFail(1)
SpecPush == Init /\ [][PushNext]_vars
\* the two endpoints that create conversations
SpecConv == Init /\ [][ConvNext]_vars

\* ================================================================ claims
\* the sockets the registry holds under key u
Registered(u) == MapHas(wsConnections, u)
Lookup(u) == MapGet(wsConnections, u)
RegisteredOpen(u) == Registered(u) /\ readyState[Lookup(u)] = "OPEN"
Closes(s) == readyState[s] # "CLOSED" /\ readyState'[s] = "CLOSED"

\* C1 (as claimed): stale-unregister guard. When a socket closes, the registry
\* entry of every user that points at ANOTHER socket is still there and still
\* points at that socket: the close of an older socket never evicts the entry
\* of a newer socket for the same user.
C1_StaleCloseKeepsNewer ==
    [][\A s \in Sockets : Closes(s) =>
          \A u \in Users :
              (Registered(u) /\ Lookup(u) # s) =>
                  (MapHas(wsConnections', u) /\ MapGet(wsConnections', u) = Lookup(u))]_vars

\* C2: at most one handle per userId in the registry, in every reachable state.
C2_AtMostOneHandle ==
    \A u \in AuthIds : Cardinality(MapValues(wsConnections, u)) <= 1

\* C2 witness: two sockets are open and both authenticated last as the same
\* user, and the registry holds exactly one handle for that user.
C2_Witness ==
    \E s1, s2 \in Sockets, u \in Users :
        /\ s1 # s2
        /\ readyState[s1] = "OPEN" /\ readyState[s2] = "OPEN"
        /\ userId[s1] = u /\ userId[s2] = u
        /\ Cardinality(MapValues(wsConnections, u)) = 1

\* C9 (as claimed): register closes the replaced handle. When a socket
\* authenticates as u while another socket is registered for u, that other
\* socket is no longer OPEN afterwards.
C9_RegisterClosesReplaced ==
    [][\A s \in Sockets, u \in Users :
          (Auth(s, u) /\ Registered(u) /\ Lookup(u) # s) =>
              readyState'[Lookup(u)] # "OPEN"]_vars

\* C10 (as claimed): close always deregisters. No registry entry maps any
\* userId to a socket that has closed.
C10_ClosedNotRegistered ==
    \A s \in Sockets :
        readyState[s] = "CLOSED" => \A e \in wsConnections : e[2] # s

\* the writes the step adds to the log
NewWrites == SubSeq(sent', Len(sent) + 1, Len(sent'))
ParticipantSet(c) == {participants[i].userId :
                        i \in {j \in DOMAIN participants : participants[j].conversationId = c}}
\* u has an open socket whose bound identity is u
Online(u) == \E s \in Sockets : readyState[s] = "OPEN" /\ userId[s] = u
WritesOf(r) == SelectSeq(sent, LAMBDA w : w.event.by = <<"req", r>>)

\* C3 (as claimed): delivery to online participants. When the handler of a
\* persisted message runs its broadcast, every participant of the conversation
\* that has an open socket bound to its identity is written the new_message
\* push of that message.
C3_OnlineParticipantsWritten ==
    [][\A r \in Requests : SendBroadcast(r) =>
          \A p \in ParticipantSet(req[r].id) :
              Online(p) =>
                  \E i \in DOMAIN NewWrites :
                      /\ NewWrites[i].key = p
                      /\ NewWrites[i].event.type = "new_message"
                      /\ NewWrites[i].event.message = req[r].message]_vars

\* C4 (as claimed): sender exclusion. No new_message push is written under the
\* registry key of the user who sent that message.
C4_SenderNotWritten ==
    \A i \in DOMAIN sent :
        sent[i].event.type = "new_message" =>
            sent[i].key # messages[sent[i].event.message].senderId

\* C4 (amended): the sender is a recipient like every other participant. When
\* the broadcast of a message runs while the sender's registered socket is
\* OPEN, the new_message push of that message is written to that socket.
C4_SenderWrittenWhenOpen ==
    [][\A r \in Requests :
          (SendBroadcast(r) /\ RegisteredOpen(req[r].userId)) =>
              \E i \in DOMAIN NewWrites :
                  /\ NewWrites[i].to = Lookup(req[r].userId)
                  /\ NewWrites[i].key = req[r].userId
                  /\ NewWrites[i].event.type = "new_message"
                  /\ NewWrites[i].event.message = req[r].message]_vars

\* C4 witness: a request has completed its broadcast and one of its writes
\* went to the socket registered under its own sender.
C4_Witness ==
    \E r \in Requests :
        /\ req[r].pc = "done" /\ req[r].status = 200
        /\ \E i \in DOMAIN sent :
              /\ sent[i].event.by = <<"req", r>>
              /\ sent[i].key = req[r].userId

\* C5: fan-out count. A broadcast to a conversation whose participants are
\* three users, exactly two of which (x, y) have a registered OPEN socket,
\* makes exactly two writes: one to x's handle and one to y's handle, and
\* nothing else (so none for the third participant).
C5_FanOutCount ==
    [][\A r \in Requests : SendBroadcast(r) =>
          \A x, y, z \in Users :
              (/\ ParticipantSet(req[r].id) = {x, y, z}
               /\ Cardinality({x, y, z}) = 3
               /\ RegisteredOpen(x) /\ RegisteredOpen(y) /\ ~RegisteredOpen(z)) =>
                  /\ Len(NewWrites) = 2
                  /\ {<<NewWrites[i].key, NewWrites[i].to>> : i \in DOMAIN NewWrites}
                       = {<<x, Lookup(x)>>, <<y, Lookup(y)>>}
                  /\ \A i \in DOMAIN NewWrites : NewWrites[i].key # z]_vars

\* C5 witness: a broadcast to the three-participant conversation has completed
\* with exactly two writes, keyed A and C, to two different sockets, and none
\* keyed B.
C5_Witness ==
    \E r \in Requests :
        /\ req[r].pc = "done" /\ req[r].status = 200
        /\ req[r].participantIds = <<"A", "B", "C">>
        /\ Len(WritesOf(r)) = 2
        /\ WritesOf(r)[1].key = "A" /\ WritesOf(r)[2].key = "C"
        /\ WritesOf(r)[1].to # WritesOf(r)[2].to

\* C8 (as claimed): the typing relay never echoes to the sender. A typing push
\* carrying userId = u is never written to a socket whose bound identity, at
\* the moment of the write, is u.
C8_TypingNeverEchoed ==
    [][\A i \in DOMAIN NewWrites :
          NewWrites[i].event.type = "typing" =>
              NewWrites[i].event.userId # userId[NewWrites[i].to]]_vars

Live(h) == {k \in ClientSockets : h.sockets[k].state \in {"CONNECTING", "OPEN"}}
Closing(k) == hook.sockets[k].state # "CLOSED" /\ hook'.sockets[k].state = "CLOSED"

C7_TypingDebounce ==
    /\ Len(chat.burst) <= 2
    /\ \A i \in DOMAIN chat.burst : chat.burst[i] = FALSE => i = Len(chat.burst)

\* the positions of the log at which the new_message push of message m was
\* written to socket s
PushesOf(m, s) == {i \in DOMAIN sent : /\ sent[i].event.type = "new_message"
                                       /\ sent[i].event.message = m
                                       /\ sent[i].to = s}

\* C11 (as claimed): per-conversation push order. For two messages m1, m2 of
\* one conversation with m1 persisted before m2, a socket that is written the
\* pushes of both is written the push of m1 before the push of m2.
C11_PushOrderIsPersistOrder ==
    \A m1, m2 \in DOMAIN messages, s \in Sockets :
        (/\ m1 < m2
         /\ messages[m1].conversationId = messages[m2].conversationId) =>
            \A i \in PushesOf(m1, s), j \in PushesOf(m2, s) : i < j

\* C12 (as claimed): the send succeeds independently of the push. A request
\* whose message createMessage has persisted is answered 200, whatever
\* happens on the push path.
C12_PersistedMeansSuccess ==
    \A r \in Requests :
        (req[r].pc = "done" /\ req[r].message # 0) => req[r].status = 200

\* the step writes no push under registry key p
NoWriteKeyed(p) == \A i \in DOMAIN NewWrites : NewWrites[i].key # p
\* the ids of the messages of conversation c, and the latest of them
IdsOf(c) == {messages[i].id : i \in {j \in DOMAIN messages : messages[j].conversationId = c}}
Latest(c) == CHOOSE m \in IdsOf(c) : \A n \in IdsOf(c) : n <= m
\* the default history fetch of conversation c
History(c) == getMessages(c, DefaultLimit, 0)

\* C13 (as claimed): offline catch-up, the participant being offline when the
\* message is created. A participant with no registry entry at the moment the
\* message row is inserted is written no push by that message's broadcast.
C13_NoPushIfOfflineAtCreate ==
    [][\A r \in Requests : SendBroadcast(r) =>
          \A p \in ParticipantSet(req[r].id) :
              p \notin req[r].registered => NoWriteKeyed(p)]_vars

\* C13 (amended): offline catch-up, the participant being offline when the
\* broadcast runs. A participant with no registered OPEN socket when the
\* broadcast loop of a message runs is written no push by it; nothing is
\* queued: a new_message push is written only by the broadcast step of its own
\* message, so a participant that connects later receives none for it; the
\* history fetch returns the conversation's messages in chronological order,
\* the latest message last.
C13_OfflineCatchUp ==
    /\ [](\A c \in SendConvs :
            LET h == History(c)
            IN  /\ \A i, j \in DOMAIN h : i < j => h[i].id < h[j].id
                /\ {h[i].id : i \in DOMAIN h} = IdsOf(c)
                /\ IdsOf(c) # {} => h[Len(h)].id = Latest(c))
    /\ [][/\ \A r \in Requests : SendBroadcast(r) =>
                \A p \in ParticipantSet(req[r].id) :
                    ~RegisteredOpen(p) => NoWriteKeyed(p)
          /\ \A i \in DOMAIN NewWrites :
                NewWrites[i].event.type = "new_message" =>
                    \E r \in Requests : /\ SendBroadcast(r)
                                        /\ req[r].message = NewWrites[i].event.message]_vars

\* C13 witness: the broadcast of the second message of a conversation has
\* completed without a write keyed B, B has registered an OPEN socket since,
\* that socket has been written no push of the message, and the history fetch
\* of the conversation ends with the message.
C13_Witness ==
    \E r \in Requests :
        /\ req[r].pc = "done" /\ req[r].status = 200
        /\ "B" \in ParticipantSet(req[r].id)
        /\ \A i \in DOMAIN WritesOf(r) : WritesOf(r)[i].key # "B"
        /\ RegisteredOpen("B")
        /\ PushesOf(req[r].message, Lookup("B")) = {}
        /\ Len(History(req[r].id)) = 2
        /\ History(req[r].id)[2].id = req[r].message

\* the number of entries of a cached list that carry message id m
Count(list, m) == Cardinality({i \in DOMAIN list : list[i] = m})

C15_SingleConnection ==
    /\ Cardinality(Live(hook)) <= 1
    /\ Cardinality(hook.timers) <= 1

\* C16 (as claimed): reconnect counter discipline. The counter is always
\* within 0 .. maxReconnectAttempts, and a step sets it back to 0 from a
\* positive value only by the open event of a socket, which sends the auth
\* frame on that socket.
C16_CounterDiscipline ==
    [][/\ hook'.reconnectAttempts \in 0 .. maxReconnectAttempts
       /\ (hook.reconnectAttempts > 0 /\ hook'.reconnectAttempts = 0) =>
             \E k \in ClientSockets :
                 /\ hook.sockets[k].state = "CONNECTING"
                 /\ hook'.sockets[k].state = "OPEN"
                 /\ Len(hook'.sockets[k].frames) = 1
                 /\ hook'.sockets[k].frames[1].type = "auth"]_vars

\* the positions of the log written by the relay of typing frame t
RelayedOf(t) == {i \in DOMAIN sent : sent[i].event.by = <<"typ", t>>}

\* C17: pre-auth events are ignored. A typing frame received on a socket whose
\* session has no userId starts no storage lookup, writes to no socket and
\* leaves the registry and every session's identity unchanged, in the step
\* that receives it and ever after.
C17_PreAuthIgnored ==
    /\ [](\A t \in Typings : typ[t].pc = "ignored" => RelayedOf(t) = {})
    /\ [][/\ \A t \in Typings, s \in Sockets, c \in ConvIds, b \in BOOLEAN :
                (Typing(t, s, c, b) /\ ~Truthy(userId[s])) =>
                    /\ typ'[t].pc = "ignored"
                    /\ sent' = sent
                    /\ wsConnections' = wsConnections
                    /\ userId' = userId
          /\ \A t \in Typings : typ[t].pc = "ignored" => typ'[t].pc = "ignored"]_vars

\* C17 witness: a typing frame for a stored conversation was received and
\* ignored on an open socket that never authenticated, while a participant of
\* the conversation is registered with another, open socket.
C17_Witness ==
    \E t \in Typings :
        /\ typ[t].pc = "ignored"
        /\ typ[t].conversationId = "c1"
        /\ readyState[typ[t].ws] = "OPEN"
        /\ userId[typ[t].ws] = Null
        /\ \E u \in Users : RegisteredOpen(u) /\ Lookup(u) # typ[t].ws

\* the identity a session is bound to: its userId when that is a non-empty id
Bound(uid) == IF Truthy(uid) THEN uid ELSE Null

\* C18 (as claimed): malformed payloads are dropped. A frame that lacks a
\* field of the expected shape - an auth frame without a userId, a typing
\* frame whose conversationId is no valid id - leaves the bound identity of
\* every session and the registry unchanged, keeps the socket open and does
\* not end the server process, neither when it is received nor when the
\* lookup it started completes.
C18_MalformedDropped ==
    [][(\/ \E s \in Sockets : Auth(s, Empty)
        \/ \E t \in Typings, s \in Sockets, b \in BOOLEAN : Typing(t, s, InvalidId, b)
        \/ \E t \in Typings, exits \in BOOLEAN :
              TypingLookupFail(t, exits) /\ typ[t].conversationId = InvalidId) =>
            /\ \A s \in Sockets : Bound(userId'[s]) = Bound(userId[s])
            /\ wsConnections' = wsConnections
            /\ readyState' = readyState
            /\ Running']_vars

\* the registry entries that point at socket s
EntriesOf(m, s) == {e \in m : e[2] = s}

\* C19 (as claimed): repeated auth is idempotent. An auth frame on a socket
\* that is already authenticated leaves the session bound to the identity it
\* had, and afterwards the registry points at the socket under that identity
\* and under no other userId.
C19_RepeatedAuthIdempotent ==
    [][\A s \in Sockets, id \in Users :
          (Auth(s, id) /\ Truthy(userId[s])) =>
              /\ userId'[s] = userId[s]
              /\ EntriesOf(wsConnections', s) = {<<userId[s], s>>}]_vars

\* C20 (as claimed): a typing-relay storage failure is contained. The lookup
\* of a typing frame never ends the server process; a lookup that fails or
\* finds no conversation writes no typing push and leaves the sockets and the
\* registry as they are.
C20_LookupFailureContained ==
    /\ [](\A t \in Typings : typ[t].pc # "exit")
    /\ [][\A t \in Typings :
            (\/ \E exits \in BOOLEAN : TypingLookupFail(t, exits)
             \/ TypingRelay(t) /\ getConversation(typ[t].conversationId) = Undefined) =>
                /\ sent' = sent
                /\ readyState' = readyState
                /\ wsConnections' = wsConnections]_vars

\* C21: a send to a closed socket is treated as recipient offline. When the
\* broadcast of a message runs while a participant's registered socket is not
\* OPEN, nothing is written to that socket or under that participant's key,
\* every participant whose registered socket is OPEN is still written the
\* push, and the request is answered 200.
C21_ClosedSocketSkipped ==
    [][\A r \in Requests : SendBroadcast(r) =>
          /\ req'[r].status = 200
          /\ \A p \in ParticipantSet(req[r].id) :
                (Registered(p) /\ readyState[Lookup(p)] # "OPEN") =>
                    /\ NoWriteKeyed(p)
                    /\ \A i \in DOMAIN NewWrites : NewWrites[i].to # Lookup(p)
          /\ \A q \in ParticipantSet(req[r].id) :
                RegisteredOpen(q) =>
                    \E i \in DOMAIN NewWrites : /\ NewWrites[i].key = q
                                                /\ NewWrites[i].to = Lookup(q)]_vars

\* C21 witness: with two auth frames in all, a first broadcast to conversation
\* c1 wrote to A's registered socket; a later broadcast to c1, answered 200,
\* wrote nothing under A but did write to C, a participant that comes after A
\* in the loop; A is still registered with that same socket, which is no
\* longer OPEN.
C21_Witness ==
    \E r1, r2 \in Requests :
        /\ nAuth = 2
        /\ req[r1].pc = "done" /\ req[r2].pc = "done" /\ req[r2].status = 200
        /\ req[r1].id = "c1" /\ req[r2].id = "c1"
        /\ Registered("A") /\ readyState[Lookup("A")] # "OPEN"
        /\ \E i, j \in DOMAIN sent :
              /\ i < j
              /\ sent[i].event.by = <<"req", r1>> /\ sent[i].key = "A"
              /\ sent[i].to = Lookup("A")
              /\ sent[j].event.by = <<"req", r2>> /\ sent[j].key = "C"
        /\ \A j \in DOMAIN sent : sent[j].event.by = <<"req", r2>> => sent[j].key # "A"

\* the positions of the log written by the broadcast of request r
RelayedBy(r) == {i \in DOMAIN sent : sent[i].event.by = <<"req", r>>}

\* C22: persist before push. Every new_message push in the log carries the id
\* of a stored message of the conversation it names; the pushes a broadcast
\* step writes carry the request's message, which was stored before the step;
\* and a request whose createMessage failed has written no push.
C22_PersistBeforePush ==
    /\ [](\A i \in DOMAIN sent :
            sent[i].event.type = "new_message" =>
                /\ sent[i].event.message \in DOMAIN messages
                /\ messages[sent[i].event.message].conversationId
                     = sent[i].event.conversationId)
    /\ [](\A r \in Requests :
            (req[r].pc = "done" /\ req[r].message = 0) => RelayedBy(r) = {})
    /\ [][\A r \in Requests : SendBroadcast(r) =>
            /\ req[r].message \in DOMAIN messages
            /\ \A i \in DOMAIN NewWrites :
                  NewWrites[i].event.message = req[r].message]_vars

\* C22 witness: a request to conversation c1 ended 500 because createMessage
\* failed, and wrote nothing, while two participants of c1 are registered with
\* OPEN sockets to which another request's broadcast has written.
C22_Witness ==
    \E r, q \in Requests :
        /\ req[r].pc = "done" /\ req[r].status = 500 /\ req[r].message = 0
        /\ req[r].id = "c1" /\ req[q].id = "c1"
        /\ RelayedBy(r) = {}
        /\ RegisteredOpen("A") /\ RegisteredOpen("C")
        /\ Cardinality(RelayedBy(q)) = 2

\* C23 (as claimed): re-authentication on every connection. When a socket of
\* the hook opens, the first frame sent on it is an auth frame that carries
\* the userId the hook has at that moment; and on no socket is a typing frame
\* sent before the auth frame.
C23_AuthFirstWithCurrentUser ==
    /\ [](\A k \in ClientSockets :
            hook.sockets[k].frames # <<>> => hook.sockets[k].frames[1].type = "auth")
    /\ [][\A k \in ClientSockets :
            (hook.sockets[k].state = "CONNECTING" /\ hook'.sockets[k].state = "OPEN") =>
                /\ hook'.sockets[k].frames # <<>>
                /\ hook'.sockets[k].frames[1].type = "auth"
                /\ hook'.sockets[k].frames[1].userId = hookUserId]_vars

\* C24 (as claimed): disconnect is final. Once the component has unmounted
\* (its cleanup has run disconnect()), the hook has no socket that is
\* connecting or open and no reconnect timer pending; and the close event of
\* a socket that disconnect() closed schedules no reconnect timer.
C24_DisconnectIsFinal ==
    /\ [](mounted = "gone" => (Live(hook) = {} /\ hook.timers = {}))
    /\ [][\A k \in ClientSockets :
            (hook.sockets[k].state = "CLOSING" /\ Closing(k)) =>
                hook'.timers \subseteq hook.timers]_vars

\* the typing frames for conversation c among the frames sent on a socket
TypingFramesFor(frames, c) ==
    SelectSeq(frames, LAMBDA f : f.type = "typing" /\ f.conversationId = c)
\* the peers of conversation c were last told, over socket k, that the user
\* is typing
IndicatorOn(k, c) ==
    LET fs == TypingFramesFor(hook.sockets[k].frames, c)
    IN  fs # <<>> /\ fs[Len(fs)].isTyping

\* C25 (as claimed): the typing indicator is always cleared. While the hook is
\* connected over its current socket, a typing{isTyping:true} that was the
\* last typing frame sent for a conversation is owed its isTyping:false: the
\* typing timeout that will send it, for that conversation, is pending.
C25_TrueIsOwedFalse ==
    \A k \in hook.wsRef, c \in SendConvs :
        (/\ mounted = "yes"
         /\ hook.isConnected
         /\ hook.sockets[k].state = "OPEN"
         /\ IndicatorOn(k, c)) =>
            (chat.typingTimeout /\ chat.conversationId = c)

\* C26 (as claimed): the typing relay is limited to participants. Every typing
\* push in the log names a conversation of which the user it carries as
\* sender is a participant.
C26_TypingFromParticipantsOnly ==
    \A i \in DOMAIN sent :
        sent[i].event.type = "typing" =>
            sent[i].event.userId \in ParticipantSet(sent[i].event.conversationId)

\* C27 (as claimed): pushes go only to participants. A push for conversation c
\* is written under the registry key of a participant of c, and the socket it
\* is written to is registered under no userId that is not a participant of c.
C27_PushOnlyToParticipants ==
    [][\A i \in DOMAIN NewWrites :
          /\ NewWrites[i].key \in ParticipantSet(NewWrites[i].event.conversationId)
          /\ \A e \in EntriesOf(wsConnections, NewWrites[i].to) :
                e[1] \in ParticipantSet(NewWrites[i].event.conversationId)]_vars

\* the create-or-get requests for the two users u1, u2, in either argument
\* order, that were answered with a conversation
DirectCallsOf(u1, u2) ==
    {d \in Calls : /\ call[d].kind = "direct"
                   /\ call[d].pc = "done"
                   /\ call[d].status = 200
                   /\ {call[d].userId1, call[d].userId2} = {u1, u2}}

\* C29 (as claimed): direct conversation uniqueness. For any two users, under
\* any interleaving of the create-or-get requests for the pair, at most one
\* non-group conversation holds both users as participants, and all requests
\* for the pair are answered with the same conversation.
C29_DirectConversationUnique ==
    \A u1, u2 \in Users :
        u1 # u2 =>
            /\ Cardinality(existingConversation(u1, u2)) <= 1
            /\ \A d1, d2 \in DirectCallsOf(u1, u2) : call[d1].result = call[d2].result

\* the new_message writes for message m made to socket s as the socket of
\* user u (the registry key the broadcast loop looked up)
PushesTo(m, s, u) == {i \in PushesOf(m, s) : sent[i].key = u}

\* C28 (as claimed): at most one push per message per user. Whatever the
\* direct or group request that created the conversation carried, a persisted
\* message is written at most once, as new_message, to the socket of any
\* given user.
C28_OnePushPerMessagePerUser ==
    \A i \in DOMAIN messages, s \in Sockets, u \in Users :
        Cardinality(PushesTo(messages[i].id, s, u)) <= 1

\* request r is under way for a user who is no participant of its conversation
Outsider(r) ==
    /\ req[r].pc # Idle
    /\ ~isUserInConversation(req[r].userId, req[r].id)

====
